---- MODULE Spec2Model ----
(***************************************************************************)
(* Pool-invariance widget (src/js/pool-invariance.js) on top of the house  *)
(* helpers of src/js/widgets-core.js, as a state machine.                  *)
(*                                                                         *)
(* Numbers.  The widget computes in IEEE doubles; the model computes in    *)
(* fixed point.  Lengths and velocities are integers in units of           *)
(* 1/VScale px (px per frame); every product is rounded to the nearest     *)
(* unit where IEEE rounds to the nearest double.  Energies are held        *)
(* doubled (2E, in units^2), so that 0.5*(vx*vx+vy*vy) and the ledger      *)
(* sums are exact integers.  frictionFactor and restitution are in         *)
(* thousandths, times in milliseconds.                                     *)
(***************************************************************************)
EXTENDS Integers, Sequences, FiniteSets, TLC

\* ------------------------------------------------------------------ bounds
VScale == 1000          \* units per pixel
FOne == 10000           \* resolution of a fraction in [0,1] (unit vectors, sqrt)
MaxFrames == 24         \* moving frames modelled per frictionless shot
EventFrames == 2        \* frames of a strike or shot during which input events arrive
MaxDowns == 2           \* pointer-down events in a behaviour
MaxMoves == 1           \* pointer-move events in a behaviour
MaxCtl == 1             \* slider / reset / resize events in a behaviour

MaxRounds == 2          \* presses of Reset in the guessing game
MaxFlips == 4           \* flips counted by the coin-flip widget
BulkFlips == 2          \* flips of one press of a bulk button (10 and 100 on the page)
MaxOdds == 2            \* input events on the heads-probability control
MaxToggles == 2         \* changes of the page's colour scheme
MaxSubs == 3            \* calls of onColorSchemeChange
MaxLayouts == 3         \* resize and relayout events on the autosized canvas
PageWidgets == 3        \* pool-invariance widgets on the page
MaxPageFrames == 3      \* frames followed per widget of the page
SmallCap == 8           \* opts.samplesMax of the instance with a short sample buffer
MaxLinkEvents == 2      \* input events and set calls on the linked controls
MaxDragEvents == 5      \* pointer-down and pointer-move events on the drag target
ScanBlock == 16         \* samples looked at per step of the scan for the first visible one
LongFrames == 2410      \* frames of the long frictionless shot
JitterFrames == 4       \* moving frames of a shot under irregular frame gaps
Pointers == {1, 2}
HostWidths == {0, 300}                  \* clientWidth of the canvas' parent
\* opts.frictionFactor / opts.restitution (thousandths) and opts.samplesMax
\* given to initOne: the defaults and a lossy table
Opts == {[frictionFactor |-> 1000, restitution |-> 1000, samplesMax |-> 2400],
         [frictionFactor |-> 900, restitution |-> 600, samplesMax |-> 2400]}
\* a lossy table only
DrawOpts == {[frictionFactor |-> 900, restitution |-> 600, samplesMax |-> 2400]}
\* the same and values outside the ranges of the controls, as
\* PoolInvarianceInit(el, opts) accepts them
WideOpts == Opts \cup {[frictionFactor |-> 500, restitution |-> 300, samplesMax |-> 2400]}
\* the same and a frictionless table with a short sample buffer
LongOpts == Opts \cup {[frictionFactor |-> 1000, restitution |-> 1000, samplesMax |-> SmallCap]}
FricInputs == {0, 100}                  \* friction control value, thousandths
RestInputs == {800, 1000}               \* restitution control value, thousandths
Gaps == {16}
JitterGaps == {-5, 0, 16, 100000}                            \* now - lastT of a frame, ms

\* ------------------------------------------------------------------ cfg
ballRadius == 10
cueAnimFrames == 18
maxPull == 220
maxSpeedPxPerFrame == 8
minWidth == 320
maxWidth == 720
aspectNum == 12
aspectDen == 7
samplesMaxDefault == 2400
timeWindowMs == 3000        \* cfg.timeWindowSec, in ms
nowFracNum == 2             \* cfg.nowFrac = 2/3
nowFracDen == 3
plotMarginL == 42           \* drawLedger: m.l
plotMarginR == 12           \* drawLedger: m.r

\* ------------------------------------------------------------------ numbers
Abs(a) == IF a < 0 THEN -a ELSE a
Sgn(a) == IF a < 0 THEN -1 ELSE 1
Min(a, b) == IF a < b THEN a ELSE b
Max(a, b) == IF a > b THEN a ELSE b

clamp(v, lo, hi) == Max(lo, Min(hi, v))

\* a * num / den, rounded to the nearest integer (half away from zero)
MulDiv(a, num, den) == Sgn(a) * ((2 * Abs(a) * num + den) \div (2 * den))

RECURSIVE ISqrtIn(_, _, _)
ISqrtIn(n, lo, hi) ==
  IF lo >= hi THEN lo
  ELSE LET mid == (lo + hi + 1) \div 2
       IN IF mid * mid <= n THEN ISqrtIn(n, mid, hi) ELSE ISqrtIn(n, lo, mid - 1)

\* Math.sqrt on a non-negative integer, rounded down
Sqrt(n) == ISqrtIn(n, 0, 46340)

\* the operands of Math.hypot are split as a = ah * s + al so that the squares
\* of the high parts fit the machine integer
HypotScale(a, b) ==
  LET m == Max(Abs(a), Abs(b))
  IN IF m <= 30000 THEN 1 ELSE IF m <= 300000 THEN 10 ELSE 100

\* Math.hypot: the root of the high parts, then one Newton step for the
\* remainder and the low parts
hypot(a, b) ==
  LET s == HypotScale(a, b)
      ah == Abs(a) \div s
      bh == Abs(b) \div s
      al == Abs(a) % s
      bl == Abs(b) % s
      q == Sqrt(ah * ah + bh * bh)
      rem == ah * ah + bh * bh - q * q
  IN IF q = 0 THEN Sqrt(al * al + bl * bl)
     ELSE s * q + (s * rem + 2 * (ah * al + bh * bl)) \div (2 * q)

\* ------------------------------------------------------------------ state
VARIABLES
  width, height,          \* layoutTable.width / .height, px
  x, y, vx, vy,           \* state.x .y .vx .vy, units
  mode, hitFrame,
  aimVec,                 \* state.aimVec, [x, y] in units
  frictionFactor, restitution,
  E0, Etrans, Wfric, Winel,   \* doubled energies
  t,                      \* state.t, ms
  samples,                \* state.samples
  hostWidth,              \* clientWidth of the table canvas' parent (0: none)
  held,                   \* pointers that are down
  sessions,               \* drag sessions of onPointerDrag whose listeners are registered
  used,                   \* events spent: [down, move, ctl, reset] (a reset is also a ctl)
  drag,                   \* an onPointerDrag target with callbacks of its own (see DragInit)
  link,                   \* a pair of controls joined by linkRangeNumber (see LinkInit)
  samplesMax,           \* cfg.samplesMax: the default or opts.samplesMax
  page,                 \* a page with several pool-invariance widgets (see PageInit)
  sizer,                \* a canvas under autosizeCanvas (see SizerInit)
  theme,                \* the theme resolver and its subscribers (see ThemeInit)
  shown,                \* what the two canvases show: [scheme, blank, frame]
  coin,                 \* the coin-flip widget (see CoinInit)
  flat                  \* the flat-rotate guessing game (see FlatInit)

vars == <<width, height, x, y, vx, vy, mode, hitFrame, aimVec, frictionFactor,
          restitution, E0, Etrans, Wfric, Winel, t, samples, hostWidth, held,
          sessions, used, drag, link, samplesMax, page, sizer, theme, coin, flat,
          shown>>

\* what a step of one of the other components leaves alone
tableVars == <<width, height, x, y, vx, vy, mode, hitFrame, aimVec, frictionFactor,
               restitution, E0, Etrans, Wfric, Winel, t, samples, hostWidth, held,
               sessions, used, samplesMax>>
allBut_page == <<tableVars, drag, link, sizer, theme, shown, coin, flat>>
allBut_sizer == <<tableVars, drag, link, page, theme, shown, coin, flat>>
allBut_theme == <<tableVars, drag, link, page, sizer, shown, coin, flat>>
allBut_coin == <<tableVars, drag, link, page, sizer, theme, shown, flat>>
allBut_flat == <<tableVars, drag, link, page, sizer, theme, coin, shown>>

r == ballRadius * VScale
W == width * VScale
H == height * VScale

\* ------------------------------------------------------------------ layout
\* autosizeCanvas.layout: host?.clientWidth || max, clamped; Math.round(w / aspect)
layoutWidth(hostW) == clamp(IF hostW = 0 THEN maxWidth ELSE hostW, minWidth, maxWidth)
layoutHeight(w) == (2 * w * aspectDen + aspectNum) \div (2 * aspectNum)

\* ------------------------------------------------------------------ ball
\* The part of `state` the pointer handlers work on.
Ball == [x |-> x, y |-> y, vx |-> vx, vy |-> vy, mode |-> mode,
         hitFrame |-> hitFrame, aimVec |-> aimVec]

ballHitTest(b, p) ==
  LET dx == p.x - b.x
      dy == p.y - b.y
  IN /\ Abs(dx) <= r
     /\ Abs(dy) <= r
     /\ dx * dx + dy * dy <= r * r

onStart(b, p) ==
  IF ballHitTest(b, p)
  THEN [b EXCEPT !.vx = 0, !.vy = 0, !.mode = "dragBall", !.hitFrame = 0]
  ELSE IF b.mode # "hitting"
       THEN [b EXCEPT !.mode = "aim", !.aimVec = [x |-> b.x - p.x, y |-> b.y - p.y]]
       ELSE b

\* mutant: a dragged ball follows the pointer beyond the cushions
onMove_NoClamp(b, p) ==
  IF b.mode = "dragBall"
  THEN [b EXCEPT !.x = p.x, !.y = p.y]
  ELSE IF b.mode = "aim"
       THEN [b EXCEPT !.aimVec = [x |-> b.x - p.x, y |-> b.y - p.y]]
       ELSE b

onMove(b, p) ==
  IF b.mode = "dragBall"
  THEN [b EXCEPT !.x = clamp(p.x, r, W - r), !.y = clamp(p.y, r, H - r)]
  ELSE IF b.mode = "aim"
       THEN [b EXCEPT !.aimVec = [x |-> b.x - p.x, y |-> b.y - p.y]]
       ELSE b

\* mutant: a release arms the shot from a pull of 5 px on
onEnd_AtLeast(b) ==
  IF b.mode = "dragBall" THEN [b EXCEPT !.mode = "idle"]
  ELSE IF b.mode = "aim"
       THEN IF hypot(b.aimVec.x, b.aimVec.y) >= 5 * VScale
            THEN [b EXCEPT !.mode = "hitting", !.hitFrame = 0]
            ELSE [b EXCEPT !.mode = "idle", !.aimVec = [x |-> 0, y |-> 0]]
       ELSE b

\* mutant: arming a shot does not restart the cue animation
onEnd_KeepHitFrame(b) ==
  IF b.mode = "dragBall" THEN [b EXCEPT !.mode = "idle"]
  ELSE IF b.mode = "aim"
       THEN IF hypot(b.aimVec.x, b.aimVec.y) > 5 * VScale
            THEN [b EXCEPT !.mode = "hitting"]
            ELSE [b EXCEPT !.mode = "idle", !.aimVec = [x |-> 0, y |-> 0]]
       ELSE b

onEnd(b) ==
  IF b.mode = "dragBall" THEN [b EXCEPT !.mode = "idle"]
  ELSE IF b.mode = "aim"
       THEN LET L == hypot(b.aimVec.x, b.aimVec.y)
            IN IF L > 5 * VScale
               THEN [b EXCEPT !.mode = "hitting", !.hitFrame = 0]
               ELSE [b EXCEPT !.mode = "idle", !.aimVec = [x |-> 0, y |-> 0]]
       ELSE b

\* every registered session's listener runs on an event of the target
RECURSIVE onMoveEach(_, _, _)
onMoveEach(b, p, n) == IF n = 0 THEN b ELSE onMoveEach(onMove(b, p), p, n - 1)

RECURSIVE onEndEach(_, _)
onEndEach(b, n) == IF n = 0 THEN b ELSE onEndEach(onEnd(b), n - 1)

\* ------------------------------------------------------------------ physics
\* clamp(lenPx / cfg.maxPull, 0, 1) as a fraction of FOne * FOne (the quotient
\* FOne * FOne / (maxPull * VScale) is reduced so that the product fits)
pullRatio(len) ==
  IF len >= maxPull * VScale THEN FOne * FOne
  ELSE IF len <= 0 THEN 0
  ELSE (len * ((FOne * FOne) \div 20000)) \div ((maxPull * VScale) \div 20000)

\* mutant: the speed grows linearly with the pull
pullToSpeed_Linear(len) == MulDiv(maxSpeedPxPerFrame * VScale, pullRatio(len) \div FOne, FOne)

\* cfg.maxSpeedPxPerFrame * Math.sqrt(clamp(lenPx / cfg.maxPull, 0, 1)), units
pullToSpeed(len) == MulDiv(maxSpeedPxPerFrame * VScale, Sqrt(pullRatio(len)), FOne)

\* a / L as a fraction of FOne
unit(a, L) ==
  LET s == IF L <= 100000 THEN 1 ELSE 10
  IN MulDiv(Sgn(a) * (Abs(a) \div s), FOne, L \div s)

\* the velocity beginMotionFromAim gives the ball (L > 0)
launchVelocity(aim) ==
  LET L == hypot(aim.x, aim.y)
      speed == pullToSpeed(L)
  IN [vx |-> MulDiv(speed, unit(aim.x, L), FOne),
      vy |-> MulDiv(speed, unit(aim.y, L), FOne)]

\* mutant: the buffer is never trimmed
sampleEnergy_NoTrim(smp, s) == Append(smp, s)

sampleEnergy(smp, s) ==
  LET a == Append(smp, s)
  IN IF Len(a) > samplesMax THEN Tail(a) ELSE a

\* mutant: the cushion loss is not booked to Winel
collideWallsAndTrackLoss_NoLoss(px, py, pvx, pvy, pWinel) ==
  LET e == restitution
      hitL == px - r < 0
      hitR == ~hitL /\ px + r > W
      hitT == py - r < 0
      hitB == ~hitT /\ py + r > H
  IN [x |-> IF hitL THEN r ELSE IF hitR THEN W - r ELSE px,
      y |-> IF hitT THEN r ELSE IF hitB THEN H - r ELSE py,
      vx |-> IF hitL THEN MulDiv(Abs(pvx), e, 1000)
             ELSE IF hitR THEN -MulDiv(Abs(pvx), e, 1000) ELSE pvx,
      vy |-> IF hitT THEN MulDiv(Abs(pvy), e, 1000)
             ELSE IF hitB THEN -MulDiv(Abs(pvy), e, 1000) ELSE pvy,
      Winel |-> pWinel]

\* mutant: a bounce scales the whole velocity by the restitution
collideWallsAndTrackLoss_ScaleWhole(px, py, pvx, pvy, pWinel) ==
  LET e == restitution
      hitL == px - r < 0
      hitR == ~hitL /\ px + r > W
      hitT == py - r < 0
      hitB == ~hitT /\ py + r > H
      bounced == hitL \/ hitR \/ hitT \/ hitB
      sx == IF bounced THEN MulDiv(Abs(pvx), e, 1000) ELSE Abs(pvx)
      sy == IF bounced THEN MulDiv(Abs(pvy), e, 1000) ELSE Abs(pvy)
      nvx == IF hitL THEN sx ELSE IF hitR THEN -sx ELSE Sgn(pvx) * sx
      nvy == IF hitT THEN sy ELSE IF hitB THEN -sy ELSE Sgn(pvy) * sy
      dE == (pvx * pvx + pvy * pvy) - (nvx * nvx + nvy * nvy)
  IN [x |-> IF hitL THEN r ELSE IF hitR THEN W - r ELSE px,
      y |-> IF hitT THEN r ELSE IF hitB THEN H - r ELSE py,
      vx |-> nvx, vy |-> nvy,
      Winel |-> IF bounced /\ e < 1000 /\ dE > 0 THEN pWinel + dE ELSE pWinel]

\* mutant: the velocity is reflected but the ball is not put back on the cushion
collideWallsAndTrackLoss_NoClamp(px, py, pvx, pvy, pWinel) ==
  LET e == restitution
      hitL == px - r < 0
      hitR == ~hitL /\ px + r > W
      hitT == py - r < 0
      hitB == ~hitT /\ py + r > H
      nvx == IF hitL THEN MulDiv(Abs(pvx), e, 1000)
             ELSE IF hitR THEN -MulDiv(Abs(pvx), e, 1000) ELSE pvx
      nvy == IF hitT THEN MulDiv(Abs(pvy), e, 1000)
             ELSE IF hitB THEN -MulDiv(Abs(pvy), e, 1000) ELSE pvy
      dE == (pvx * pvx + pvy * pvy) - (nvx * nvx + nvy * nvy)
  IN [x |-> px, y |-> py, vx |-> nvx, vy |-> nvy,
      Winel |-> IF (hitL \/ hitR \/ hitT \/ hitB) /\ e < 1000 /\ dE > 0
                THEN pWinel + dE ELSE pWinel]

collideWallsAndTrackLoss(px, py, pvx, pvy, pWinel) ==
  LET e == restitution
      v2b == pvx * pvx + pvy * pvy
      hitL == px - r < 0
      hitR == ~hitL /\ px + r > W
      hitT == py - r < 0
      hitB == ~hitT /\ py + r > H
      nx == IF hitL THEN r ELSE IF hitR THEN W - r ELSE px
      nvx == IF hitL THEN MulDiv(Abs(pvx), e, 1000)
             ELSE IF hitR THEN -MulDiv(Abs(pvx), e, 1000) ELSE pvx
      ny == IF hitT THEN r ELSE IF hitB THEN H - r ELSE py
      nvy == IF hitT THEN MulDiv(Abs(pvy), e, 1000)
             ELSE IF hitB THEN -MulDiv(Abs(pvy), e, 1000) ELSE pvy
      bounced == hitL \/ hitR \/ hitT \/ hitB
      v2a == nvx * nvx + nvy * nvy
      dE == v2b - v2a
  IN [x |-> nx, y |-> ny, vx |-> nvx, vy |-> nvy,
      Winel |-> IF bounced /\ e < 1000 /\ dE > 0 THEN pWinel + dE ELSE pWinel]

applyFrictionAndTrackLoss(pvx, pvy, pWfric) ==
  IF frictionFactor >= 1000 THEN [vx |-> pvx, vy |-> pvy, Wfric |-> pWfric]
  ELSE LET v2b == pvx * pvx + pvy * pvy
           nvx == MulDiv(pvx, frictionFactor, 1000)
           nvy == MulDiv(pvy, frictionFactor, 1000)
           v2a == nvx * nvx + nvy * nvy
           dE == v2b - v2a
       IN [vx |-> nvx, vy |-> nvy, Wfric |-> IF dE > 0 THEN pWfric + dE ELSE pWfric]

\* 1e-6, doubled like the energies
corrEps == 2 * ((VScale * VScale) \div 1000000)

\* mutant: the residual is folded into Wfric with the wrong sign
energyCorrection_WrongSign(pvx, pvy, pWfric, pWinel) ==
  LET nEtrans == pvx * pvx + pvy * pvy
      corr == E0 - (nEtrans + pWfric + pWinel)
  IN [Etrans |-> nEtrans,
      Wfric |-> IF Abs(corr) > corrEps THEN Max(0, pWfric - corr) ELSE pWfric]

\* mutant: Etrans is recomputed but the residual is never folded into Wfric
energyCorrection_NoFold(pvx, pvy, pWfric, pWinel) ==
  [Etrans |-> pvx * pvx + pvy * pvy, Wfric |-> pWfric]

energyCorrection(pvx, pvy, pWfric, pWinel) ==
  LET nEtrans == pvx * pvx + pvy * pvy
      sum == nEtrans + pWfric + pWinel
      corr == E0 - sum
  IN [Etrans |-> nEtrans,
      Wfric |-> IF Abs(corr) > corrEps THEN Max(0, pWfric + corr) ELSE pWfric]

\* mutant: the ball counts as at rest only at speed zero
atRest_Zero(pvx, pvy) == pvx = 0 /\ pvy = 0

\* Math.hypot(vx, vy) < 0.01
atRest(pvx, pvy) == pvx * pvx + pvy * pvy < (VScale * VScale) \div 10000

\* Math.max(1e-3, Math.min(0.05, gap / 1000)), ms
\* mutant: the frame time has no lower bound
frameDt_NoFloor(gap) == Min(50, gap)

frameDt(gap) == Max(1, Min(50, gap))

\* ------------------------------------------------------------------ inputs
\* Pointer positions (canvas coordinates, units): fixed points of the canvas
\* and points given by their offset (px) from the ball.
Pt(px, py) == [x |-> px, y |-> py]
CanvasPts == {Pt(0, 0)}
DownOffsets == {Pt(0, 0), Pt(9, 9)}
MoveOffsets == {Pt(3, 4), Pt(0, 230), Pt(-160, 160)}

Near(o) == Pt(x + o.x * VScale, y + o.y * VScale)
InCanvas(p) == p.x >= 0 /\ p.x <= W /\ p.y >= 0 /\ p.y <= H

DownPts == {p \in CanvasPts \cup {Near(o) : o \in DownOffsets} : InCanvas(p)}
MovePts == CanvasPts \cup {Near(o) : o \in MoveOffsets}

Spend(k) == used' = [used EXCEPT ![k] = @ + 1]

\* Input events are modelled while the ball is at rest, dragged or aimed, and
\* in the first EventFrames frames of a strike animation and of a shot.
Attending ==
  /\ mode = "hitting" => hitFrame < EventFrames
  /\ mode = "moving" => Len(samples) <= EventFrames

\* ------------------------------------------------------------------ onPointerDrag
\* onPointerDrag(target, {hitTest, onStart, onMove, onEnd}) on a target of its
\* own, with callbacks that are inputs: the hit test may say no, onStart may
\* set a cursor, onEnd may raise.  log holds one record per session begun:
\* its pointer, whether its move/up/cancel listeners are registered (live),
\* how often each callback was called, and whether its onEnd raised; last and
\* who are the kind and the pointer of the event handled last.
DragInit ==
  [log |-> <<>>, capture |-> {}, cursor |-> "", down |-> {},
   hitTests |-> 0, events |-> 0, last |-> "none", who |-> 0]

\* the move listener of a session
moveSession(s) == IF s.live THEN [s EXCEPT !.moves = @ + 1] ELSE s

\* mutant: the up listener leaves the session's listeners registered
endSession_KeepListeners(s, raises) ==
  IF ~s.live THEN s
  ELSE IF raises THEN [s EXCEPT !.ends = @ + 1, !.raised = TRUE]
  ELSE [s EXCEPT !.ends = @ + 1]

\* the up listener of a session: onEnd(ev) comes first, and when it raises the
\* listener is left; else the capture is released (a failure is caught), the
\* three listeners are removed and the cursor is reset
endSession(s, raises) ==
  IF ~s.live THEN s
  ELSE IF raises THEN [s EXCEPT !.ends = @ + 1, !.raised = TRUE]
  ELSE [s EXCEPT !.ends = @ + 1, !.live = FALSE]

\* pointerdown on the target
DragDown(id, hit, cur) ==
  /\ id \notin drag.down
  /\ drag.events < MaxDragEvents
  /\ drag' = IF ~hit
             THEN [drag EXCEPT !.down = @ \cup {id}, !.hitTests = @ + 1,
                               !.events = @ + 1, !.last = "down-miss", !.who = id]
             ELSE [drag EXCEPT !.down = @ \cup {id}, !.hitTests = @ + 1,
                               !.events = @ + 1, !.last = "down-hit", !.who = id,
                               !.capture = @ \cup {id},
                               !.cursor = cur,
                               !.log = Append(@, [ptr |-> id, live |-> TRUE, starts |-> 1,
                                                  moves |-> 0, ends |-> 0, raised |-> FALSE])]
  /\ UNCHANGED <<width, height, x, y, vx, vy, mode, hitFrame, aimVec, frictionFactor,
                 restitution, E0, Etrans, Wfric, Winel, t, samples, hostWidth, held,
                 sessions, used, link, samplesMax, page, sizer, theme, coin, flat, shown>>

\* pointermove on the target: the move listener of every live session runs
DragMove(id) ==
  /\ drag.events < MaxDragEvents
  /\ drag' = [drag EXCEPT !.events = @ + 1, !.last = "move", !.who = id,
                          !.log = [i \in 1..Len(@) |-> moveSession(@[i])]]
  /\ UNCHANGED <<width, height, x, y, vx, vy, mode, hitFrame, aimVec, frictionFactor,
                 restitution, E0, Etrans, Wfric, Winel, t, samples, hostWidth, held,
                 sessions, used, link, samplesMax, page, sizer, theme, coin, flat, shown>>

\* pointerup or pointercancel on the target: the up listener of every live
\* session runs; after the event the user agent drops the capture of the
\* pointer that went up
DragUp(id, kind, raises) ==
  /\ id \in drag.down
  /\ drag' = [drag EXCEPT
       !.down = @ \ {id}, !.last = kind, !.who = id,
       !.log = [i \in 1..Len(@) |-> endSession(@[i], raises)],
       !.capture = (@ \ {id}) \ {drag.log[i].ptr : i \in {j \in 1..Len(drag.log) :
                                      drag.log[j].live /\ ~endSession(drag.log[j], raises).live}},
       !.cursor = IF \E i \in 1..Len(drag.log) :
                        drag.log[i].live /\ ~endSession(drag.log[i], raises).live
                  THEN "" ELSE @]
  /\ UNCHANGED <<width, height, x, y, vx, vy, mode, hitFrame, aimVec, frictionFactor,
                 restitution, E0, Etrans, Wfric, Winel, t, samples, hostWidth, held,
                 sessions, used, link, samplesMax, page, sizer, theme, coin, flat, shown>>

NextDrag ==
  \/ \E id \in Pointers, hit \in BOOLEAN, cur \in {"", "grabbing"} : DragDown(id, hit, cur)
  \/ \E id \in Pointers : DragMove(id)
  \/ \E id \in Pointers, kind \in {"pointerup", "pointercancel"}, raises \in BOOLEAN :
       DragUp(id, kind, raises)

\* ------------------------------------------------------------------ linkRangeNumber
\* linkRangeNumber(rangeEl, numberEl, {toModel, fromModel, onChange}) with the
\* transform pairs of linkFric and linkRest and with the default pair.  Values
\* are in 1/FOne; range and number are what the two controls display (Blank
\* before the first assignment), changes the arguments onChange was called
\* with, last the event handled last.
Blank == 0 - 1
LinkKinds == {"plain", "fric", "rest"}
LinkInputs == {0, 123, 456, 1000, 1234, 7777, 9876, 10000, 12000}
LinkSets == {5000, 9123, 9877, 10000}

LinkInit ==
  [kind |-> "none", hasRange |-> FALSE, hasNumber |-> FALSE, range |-> Blank,
   number |-> Blank, changes |-> <<>>, events |-> 0,
   last |-> [op |-> "none", arg |-> 0]]

\* toFixed(d) of a value in 1/FOne, with step = FOne / 10^d
toFixed(v, step) == MulDiv(v, 1, step) * step

toModel(kind, ui) ==
  CASE kind = "fric" -> clamp(FOne - ui, 9000, FOne)
    [] kind = "rest" -> clamp(ui, 6000, FOne)
    [] OTHER -> ui

fromModel(kind, m) ==
  CASE kind = "fric" -> toFixed(FOne - m, 10)
    [] kind = "rest" -> toFixed(m, 100)
    [] OTHER -> m

\* mutant: only the range control is written
setBoth_RangeOnly(l, val) ==
  [l EXCEPT !.range = IF l.hasRange THEN fromModel(l.kind, val) ELSE @,
            !.changes = Append(@, val)]

setBoth(l, val) ==
  [l EXCEPT !.range = IF l.hasRange THEN fromModel(l.kind, val) ELSE @,
            !.number = IF l.hasNumber THEN fromModel(l.kind, val) ELSE @,
            !.changes = Append(@, val)]

\* the call of linkRangeNumber: with neither control it returns nothing
LinkBind(kind, hr, hn) ==
  /\ link.kind = "none"
  /\ link' = IF ~hr /\ ~hn THEN [link EXCEPT !.kind = "void"]
             ELSE [link EXCEPT !.kind = kind, !.hasRange = hr, !.hasNumber = hn]
  /\ UNCHANGED <<width, height, x, y, vx, vy, mode, hitFrame, aimVec, frictionFactor,
                 restitution, E0, Etrans, Wfric, Winel, t, samples, hostWidth, held,
                 sessions, used, drag, samplesMax, page, sizer, theme, coin, flat, shown>>

\* set(v) on the returned object
LinkSet(v) ==
  /\ link.kind \in LinkKinds
  /\ link.events < MaxLinkEvents
  /\ link' = [setBoth(link, v) EXCEPT !.events = @ + 1, !.last = [op |-> "set", arg |-> v]]
  /\ UNCHANGED <<width, height, x, y, vx, vy, mode, hitFrame, aimVec, frictionFactor,
                 restitution, E0, Etrans, Wfric, Winel, t, samples, hostWidth, held,
                 sessions, used, drag, samplesMax, page, sizer, theme, coin, flat, shown>>

\* an input event on one of the controls, which then shows the entered value ui
LinkInput(which, ui) ==
  /\ link.kind \in LinkKinds
  /\ link.events < MaxLinkEvents
  /\ IF which = "range" THEN link.hasRange ELSE link.hasNumber
  /\ link' = [setBoth(IF which = "range" THEN [link EXCEPT !.range = ui]
                                          ELSE [link EXCEPT !.number = ui],
                      toModel(link.kind, ui))
                EXCEPT !.events = @ + 1, !.last = [op |-> which, arg |-> ui]]
  /\ UNCHANGED <<width, height, x, y, vx, vy, mode, hitFrame, aimVec, frictionFactor,
                 restitution, E0, Etrans, Wfric, Winel, t, samples, hostWidth, held,
                 sessions, used, drag, samplesMax, page, sizer, theme, coin, flat, shown>>

NextLink ==
  \/ \E kind \in LinkKinds, hr \in BOOLEAN, hn \in BOOLEAN : LinkBind(kind, hr, hn)
  \/ \E v \in LinkSets : LinkSet(v)
  \/ \E which \in {"range", "number"}, ui \in LinkInputs : LinkInput(which, ui)

\* ------------------------------------------------------------------ theme resolver
\* schemeState and the callbacks given to onColorSchemeChange.  actual is what
\* detectColorScheme() would return now; pending says that a MutationObserver
\* or media-query callback is queued; listeners is the Set in insertion
\* order; calls[cb] is the sequence of schemes cb was called with; live holds
\* the callbacks subscribed and not unsubscribed since; errors counts the
\* errors caught while notifying.
Cbs == {1, 2}
Schemes == {"light", "dark"}

ThemeInit ==
  [actual |-> "light", mode |-> "light", ready |-> FALSE, monitor |-> FALSE,
   pending |-> FALSE, listeners |-> <<>>, calls |-> [cb \in Cbs |-> <<>>],
   live |-> {}, errors |-> 0, toggles |-> 0, subs |-> 0,
   last |-> [op |-> "none", cb |-> 0]]

SeqRange(q) == {q[i] : i \in 1..Len(q)}

\* mutant: an error raised by a listener ends the notification
notify_NoCatch(ls, calls, scheme, raisers) ==
  LET reached == {i \in 1..Len(ls) : \A j \in 1..(i - 1) : ls[j] \notin raisers}
  IN [cb \in Cbs |-> IF \E i \in reached : ls[i] = cb THEN Append(calls[cb], scheme)
                      ELSE calls[cb]]

\* listeners.forEach(fn => { try { fn(mode) } catch(err) { console.error(err) } })
notify(ls, calls, scheme, raisers) ==
  [cb \in Cbs |-> IF cb \in SeqRange(ls) THEN Append(calls[cb], scheme) ELSE calls[cb]]

\* emitColorScheme(): nothing when the detected scheme is the one held
emitColorScheme(th, raisers) ==
  IF th.actual = th.mode /\ th.ready THEN th
  ELSE [th EXCEPT !.mode = th.actual, !.ready = TRUE,
                  !.calls = notify(th.listeners, @, th.actual, raisers),
                  !.errors = @ + Cardinality(SeqRange(th.listeners) \cap raisers)]

\* ensureSchemeMonitor(): installs the observers the first time; emits in
\* either case
ensureSchemeMonitor(th, raisers) == emitColorScheme([th EXCEPT !.monitor = TRUE], raisers)

unsubscribe(th, cb) ==
  [th EXCEPT !.listeners = SelectSeq(@, LAMBDA c : c # cb)]

\* the page's colour scheme changes (class, data-bs-theme, data-theme or the
\* prefers-color-scheme media query)
ThemeToggle(s) ==
  /\ s # theme.actual
  /\ theme.toggles < MaxToggles
  /\ theme' = [theme EXCEPT !.actual = s, !.pending = theme.monitor,
                            !.toggles = @ + 1, !.last = [op |-> "toggle", cb |-> 0]]
  /\ UNCHANGED allBut_theme

\* the queued observer callback runs: emitColorScheme()
ThemeObserved(raisers) ==
  /\ theme.pending
  /\ theme' = [emitColorScheme(theme, raisers) EXCEPT
                 !.pending = FALSE, !.last = [op |-> "observed", cb |-> 0]]
  /\ UNCHANGED allBut_theme

\* onColorSchemeChange(cb)
Subscribe(cb, raisers) ==
  /\ theme.subs < MaxSubs
  /\ \E th \in {ensureSchemeMonitor(theme, raisers)} :
       theme' = [th EXCEPT
         !.listeners = IF cb \in SeqRange(@) THEN @ ELSE Append(@, cb),
         !.calls[cb] = Append(@, th.mode),
         !.live = @ \cup {cb},
         !.subs = @ + 1, !.last = [op |-> "subscribe", cb |-> cb]]
  /\ UNCHANGED allBut_theme

\* the function returned by onColorSchemeChange(cb) is called
Unsubscribe(cb) ==
  /\ cb \in theme.live
  /\ theme' = [unsubscribe(theme, cb) EXCEPT
                 !.live = @ \ {cb}, !.last = [op |-> "unsubscribe", cb |-> cb]]
  /\ UNCHANGED allBut_theme

\* currentColorScheme()
CurrentColorScheme(raisers) ==
  /\ theme.last.op # "current"
  /\ theme' = [ensureSchemeMonitor(theme, raisers) EXCEPT !.last = [op |-> "current", cb |-> 0]]
  /\ UNCHANGED allBut_theme

NextTheme ==
  \/ \E s \in Schemes : ThemeToggle(s)
  \/ \E raisers \in SUBSET Cbs : ThemeObserved(raisers)
  \/ \E cb \in Cbs, raisers \in SUBSET Cbs : Subscribe(cb, raisers)
  \/ \E cb \in Cbs : Unsubscribe(cb)
  \/ \E raisers \in SUBSET Cbs : CurrentColorScheme(raisers)

\* ------------------------------------------------------------------ autosizeCanvas
\* autosizeCanvas(canvas, {aspect, min, max}) on a canvas of its own.  host is
\* the clientWidth of canvas.parentElement, or Absent when there is no parent;
\* seen is TRUE while the ResizeObserver watches the parent the canvas is in.
Absent == 0 - 1
SizerHosts == {Absent, 0, 100, 320, 500, 720, 1000}
\* the options of layoutTable, of layoutChart and the defaults
SizerOpts == {[num |-> 12, den |-> 7, min |-> 320, max |-> 720],
              [num |-> 16, den |-> 7, min |-> 320, max |-> 720],
              [num |-> 16, den |-> 9, min |-> 320, max |-> 900]}

SizerInit ==
  [made |-> FALSE, opt |-> [num |-> 16, den |-> 9, min |-> 320, max |-> 900],
   host |-> Absent, seen |-> FALSE, width |-> 0, height |-> 0, error |-> FALSE,
   events |-> 0]

\* layout(): hostW = host?.clientWidth || max; w = clamp(hostW, min, max);
\* h = Math.round(w / aspect); setupHiDPI(canvas, w, h)
sizerLayout(z) ==
  LET hostW == IF z.host = Absent \/ z.host = 0 THEN z.opt.max ELSE z.host
      w == clamp(hostW, z.opt.min, z.opt.max)
  IN [z EXCEPT !.width = w,
               !.height = (2 * w * z.opt.den + z.opt.num) \div (2 * z.opt.num)]

\* the call autosizeCanvas(canvas, opt): new ResizeObserver(layout), then
\* ro.observe(canvas.parentElement), which raises a TypeError for null, then
\* layout()
Autosize(opt, host) ==
  /\ ~sizer.made
  /\ sizer' = IF host = Absent
              THEN [sizer EXCEPT !.made = TRUE, !.opt = opt, !.host = host, !.error = TRUE]
              ELSE sizerLayout([sizer EXCEPT !.made = TRUE, !.opt = opt, !.host = host,
                                             !.seen = TRUE])
  /\ UNCHANGED allBut_sizer

\* the parent changes its width: the ResizeObserver calls layout
SizerResize(hw) ==
  /\ sizer.made /\ ~sizer.error /\ sizer.seen
  /\ sizer.events < MaxLayouts
  /\ hw # Absent /\ hw # sizer.host
  /\ sizer' = [sizerLayout([sizer EXCEPT !.host = hw]) EXCEPT !.events = @ + 1]
  /\ UNCHANGED allBut_sizer

\* the canvas is taken out of its parent; nothing is called
SizerDetach ==
  /\ sizer.made /\ ~sizer.error /\ sizer.seen
  /\ sizer' = [sizer EXCEPT !.host = Absent, !.seen = FALSE]
  /\ UNCHANGED allBut_sizer

\* relayout() on the returned object
SizerRelayout ==
  /\ sizer.made /\ ~sizer.error
  /\ sizer.events < MaxLayouts
  /\ sizer' = [sizerLayout(sizer) EXCEPT !.events = @ + 1]
  /\ UNCHANGED allBut_sizer

NextSizer ==
  \/ \E opt \in SizerOpts, host \in SizerHosts : Autosize(opt, host)
  \/ \E hw \in SizerHosts : SizerResize(hw)
  \/ SizerDetach
  \/ SizerRelayout

\* ------------------------------------------------------------------ auto-init
\* A page with PageWidgets elements .wgt[data-widget="pool-invariance"].
\* canvas[i] says whether element i contains a table canvas; status[i] is
\* "none" (initOne not called), "aborted" (initOne logged and returned),
\* "threw" (initOne raised) or "running" (initOne completed, loop scheduled).
PageInit ==
  [loaded |-> FALSE, canvas |-> [i \in 1..PageWidgets |-> TRUE],
   status |-> [i \in 1..PageWidgets |-> "none"], uncaught |-> FALSE,
   frames |-> [i \in 1..PageWidgets |-> 0]]

\* initOne(root) as far as its outcome goes: without the helpers of
\* widgets-core.js it logs and returns; tableCanvas may be null, and then
\* autosizeCanvas(tableCanvas, ...) raises a TypeError at canvas.parentElement
pageInitOne(hasCore, hasCanvas) ==
  IF ~hasCore THEN "aborted"
  ELSE IF ~hasCanvas THEN "threw"
  ELSE "running"

\* the DOMContentLoaded listener: forEach(el => initOne(el)); an error raised
\* by one call leaves forEach and the listener
DOMContentLoaded(hasCore, canvas) ==
  /\ ~page.loaded
  /\ LET out == [i \in 1..PageWidgets |-> pageInitOne(hasCore, canvas[i])]
         reached(i) == \A j \in 1..(i - 1) : out[j] # "threw"
     IN page' = [page EXCEPT
          !.loaded = TRUE, !.canvas = canvas,
          !.status = [i \in 1..PageWidgets |-> IF reached(i) THEN out[i] ELSE "none"],
          !.uncaught = \E i \in 1..PageWidgets : out[i] = "threw"]
  /\ UNCHANGED allBut_page

\* a frame of the loop of widget i, which schedules the next one
PageFrame(i) ==
  /\ page.status[i] = "running"
  /\ page.frames[i] < MaxPageFrames
  /\ page' = [page EXCEPT !.frames[i] = @ + 1]
  /\ UNCHANGED allBut_page

NextPage ==
  \/ \E hasCore \in BOOLEAN, canvas \in [1..PageWidgets -> BOOLEAN] :
       DOMContentLoaded(hasCore, canvas)
  \/ \E i \in 1..PageWidgets : PageFrame(i)

\* ------------------------------------------------------------------ coin-flip
\* The coin-flip widget after initOne: the tallies, the series of estimates
\* (each entry the pair h, n its quotient is taken of), the flip animation
\* and the heads probability in hundredths.  The angles of the animation and
\* the drawing are left out.  drawnAt is the probability the flip under way
\* was drawn with and odds the probabilities the flips counted in n were drawn
\* with; last is the kind of the event handled last.
Faces == {"H", "T"}
Rolls == {0, 40, 99}                    \* rngFloat(), hundredths
OddsInputs == {-20, 25, 50, 100}        \* value entered in the control, hundredths

CoinInit ==
  [n |-> 0, h |-> 0, t |-> 0, seriesPHat |-> <<>>, isFlipping |-> FALSE,
   finalFace |-> "H", neutral |-> TRUE, pHeads |-> 50,
   drawnAt |-> 50, odds |-> {}, changes |-> 0, last |-> "none"]

\* (rngFloat() < state.pHeads) ? 'H' : 'T'
drawFace(u, p) == IF u < p THEN "H" ELSE "T"

\* state.n += 1; h or t += 1; pushSample()
tally(c, face, p) ==
  LET nh == c.h + (IF face = "H" THEN 1 ELSE 0)
      s == Append(c.seriesPHat, [h |-> nh, n |-> c.n + 1])
  IN [c EXCEPT !.n = @ + 1, !.h = nh,
               !.t = @ + (IF face = "T" THEN 1 ELSE 0),
               !.seriesPHat = IF Len(s) > 5000 THEN Tail(s) ELSE s,
               !.odds = @ \cup {p}]

resetAll(c) ==
  IF c.isFlipping THEN c
  ELSE [c EXCEPT !.n = 0, !.h = 0, !.t = 0, !.seriesPHat = <<>>, !.neutral = TRUE,
                 !.odds = {}]

animateToFace(c, face) ==
  IF c.isFlipping THEN c
  ELSE [c EXCEPT !.isFlipping = TRUE, !.neutral = FALSE, !.finalFace = face,
                 !.drawnAt = c.pHeads]

RECURSIVE flipLoop(_, _, _)
\* the loop of flipMany over the rolls us[i..]
flipLoop(c, us, i) ==
  IF i > Len(us) THEN c
  ELSE flipLoop(tally(c, drawFace(us[i], c.pHeads), c.pHeads), us, i + 1)

flipMany(c, us) ==
  IF c.isFlipping THEN c
  ELSE [flipLoop(c, us, 1) EXCEPT !.neutral = FALSE]

\* a click on the coin or on the Flip button
FlipOnce(u) ==
  /\ coin.n + (IF coin.isFlipping THEN 1 ELSE 0) < MaxFlips
  /\ coin' = [animateToFace([coin EXCEPT !.neutral = FALSE], drawFace(u, coin.pHeads))
                EXCEPT !.last = "flip"]
  /\ UNCHANGED allBut_coin

\* a click on a bulk button
FlipMany(us) ==
  /\ coin.n + (IF coin.isFlipping THEN 1 ELSE 0) + Len(us) <= MaxFlips
  /\ coin' = [flipMany(coin, us) EXCEPT !.last = "bulk"]
  /\ UNCHANGED allBut_coin

\* a frame of the flip animation (tick); done says that state.dur has passed
FlipTick(done) ==
  /\ coin.isFlipping
  /\ coin' = IF ~done THEN [coin EXCEPT !.last = "tick"]
             ELSE [tally([coin EXCEPT !.isFlipping = FALSE], coin.finalFace, coin.drawnAt)
                     EXCEPT !.last = "settle"]
  /\ UNCHANGED allBut_coin

\* an input event on the heads-probability control: onChange of linkP after
\* initialisation, with toModel = clamp(parseFloat(ui), 0, 1)
SetOdds(ui) ==
  /\ coin.changes < MaxOdds
  /\ coin' = [resetAll([coin EXCEPT !.pHeads = clamp(ui, 0, 100)])
                EXCEPT !.changes = @ + 1, !.last = "odds"]
  /\ UNCHANGED allBut_coin

\* a click on the Reset button
CoinReset ==
  /\ coin' = [resetAll(coin) EXCEPT !.last = "reset"]
  /\ UNCHANGED allBut_coin

NextCoin ==
  \/ \E u \in Rolls : FlipOnce(u)
  \/ \E us \in [1..BulkFlips -> Rolls] : FlipMany(us)
  \/ \E done \in BOOLEAN : FlipTick(done)
  \/ \E ui \in OddsInputs : SetOdds(ui)
  \/ CoinReset

\* ------------------------------------------------------------------ flat-rotate
\* The flat-rotate guessing game after initWidget.  Angles are in hundredths
\* of a degree.  session says that the listeners of a drag session are
\* registered; anims holds the animations of animateAngle whose step is still
\* scheduled, each with its start angle and its delta.  Drawing is left out.
DEG_MIN == 0
DEG_MAX == 9000
Shapes == {"circle", "square", "triangle"}
FlatHeight == 405                       \* layout.height of the 720 px canvas
FlatYs == {100, 300}                    \* pointer y on the canvas, px
RangeInputs == {0, 30, 90}              \* value of the rotate slider, degrees
Eased == {500, 1000}                    \* 1 - (1 - t)^3 at a frame, thousandths

NoShape == "none"

rotationEnabled(f) == f.guessed \/ f.revealed

\* Math.round of an angle, degrees
roundDeg(a) == (a + 50) \div 100

hideGestureHint(f) == [f EXCEPT !.hintVisible = FALSE]

showGestureHint(f) ==
  IF f.hintShown THEN f ELSE [f EXCEPT !.hintVisible = TRUE, !.hintShown = TRUE]

updateControls(f) ==
  [f EXCEPT !.rangeDisabled = ~rotationEnabled(f),
            !.revealDisabled = ~f.guessed \/ f.revealed]

setAngle(f, value, source) ==
  LET next == clamp(value, DEG_MIN, DEG_MAX)
      g == [f EXCEPT !.angleDeg = next,
                     !.rangeValue = IF source # "slider" THEN roundDeg(next) ELSE @]
  IN IF Abs(next - f.angleDeg) < 1 /\ source = "slider" THEN f
     ELSE IF next > 100 THEN hideGestureHint(g) ELSE g

\* the animation is started unless the angle is within half a degree
animateAngle(f, targetAngle) ==
  LET start == f.angleDeg
      delta == targetAngle - start
  IN IF Abs(delta) < 50 THEN setAngle(f, targetAngle, "animation")
     ELSE [f EXCEPT !.anims = @ \cup {[start |-> start, delta |-> delta]}]

\* step(now) of an animation: eased is 1000 in its last frame
animStep(f, a, eased) ==
  LET g == setAngle(f, a.start + (a.delta * eased) \div 1000, "animation")
  IN IF eased < 1000 THEN g ELSE [g EXCEPT !.anims = @ \ {a}]

reset(f, shape) ==
  setAngle([f EXCEPT !.target = shape, !.lastId = shape, !.angleDeg = 0,
                     !.guessed = FALSE, !.guessId = NoShape, !.revealed = FALSE,
                     !.hintShown = FALSE, !.hintVisible = FALSE,
                     !.rangeValue = 0, !.rangeDisabled = TRUE,
                     !.revealDisabled = TRUE, !.noteHidden = TRUE],
           0, "reset")

handleGuess(f, choiceId) ==
  IF f.guessed THEN f
  ELSE showGestureHint(updateControls([f EXCEPT !.guessed = TRUE, !.guessId = choiceId]))

reveal(f) ==
  IF ~f.guessed \/ f.revealed THEN f
  ELSE LET g == hideGestureHint([f EXCEPT !.revealed = TRUE, !.noteHidden = FALSE])
       IN updateControls(IF g.angleDeg < DEG_MAX THEN animateAngle(g, DEG_MAX) ELSE g)

\* initWidget ends with reset(); of the shapes pickShape(null) may pick, the
\* first round is followed with the circle
FlatInit ==
  reset([target |-> NoShape, lastId |-> NoShape, angleDeg |-> 0, guessed |-> FALSE,
          guessId |-> NoShape, revealed |-> FALSE, hintShown |-> FALSE,
          hintVisible |-> FALSE, rangeValue |-> 0, rangeDisabled |-> TRUE,
          revealDisabled |-> TRUE, noteHidden |-> TRUE,
          session |-> FALSE, active |-> FALSE, startY |-> 0, startAngle |-> 0,
          anims |-> {}, rounds |-> 0], "circle")

\* a click on a choice button
FlatGuess(choiceId) ==
  /\ flat' = handleGuess(flat, choiceId)
  /\ UNCHANGED allBut_flat

\* a click on Reveal
FlatReveal ==
  /\ flat' = reveal(flat)
  /\ UNCHANGED allBut_flat

\* a click on Reset: pickShape(state.lastId) picks any other shape
FlatReset(shape) ==
  /\ flat.rounds < MaxRounds
  /\ shape # flat.lastId
  /\ flat' = [reset(flat, shape) EXCEPT !.rounds = @ + 1]
  /\ UNCHANGED allBut_flat

\* an input event on the rotate slider
FlatSlider(v) ==
  /\ flat' = IF ~rotationEnabled(flat)
             THEN [flat EXCEPT !.rangeValue = roundDeg(flat.angleDeg)]
             ELSE setAngle(hideGestureHint([flat EXCEPT !.rangeValue = v]), v * 100, "slider")
  /\ UNCHANGED allBut_flat

\* pointerdown on the canvas: hitTest is rotationEnabled()
FlatDown(py) ==
  /\ ~flat.session
  /\ flat' = IF ~rotationEnabled(flat) THEN flat
             ELSE hideGestureHint([flat EXCEPT !.session = TRUE, !.active = TRUE,
                                               !.startY = py, !.startAngle = flat.angleDeg])
  /\ UNCHANGED allBut_flat

\* pointermove during a drag session
FlatMove(py) ==
  /\ flat.session
  /\ flat' = IF ~flat.active THEN flat
             ELSE setAngle(flat, flat.startAngle + ((flat.startY - py) * 32000) \div FlatHeight,
                           "drag")
  /\ UNCHANGED allBut_flat

\* pointerup or pointercancel of the drag session
FlatUp ==
  /\ flat.session
  /\ flat' = [flat EXCEPT !.session = FALSE, !.active = FALSE]
  /\ UNCHANGED allBut_flat

\* an animation frame of a running animateAngle
FlatFrame(a, eased) ==
  /\ a \in flat.anims
  /\ flat' = animStep(flat, a, eased)
  /\ UNCHANGED allBut_flat

NextFlat ==
  \/ \E choiceId \in Shapes : FlatGuess(choiceId)
  \/ FlatReveal
  \/ \E shape \in Shapes : FlatReset(shape)
  \/ \E v \in RangeInputs : FlatSlider(v)
  \/ \E py \in FlatYs : FlatDown(py)
  \/ \E py \in FlatYs : FlatMove(py)
  \/ FlatUp
  \/ \E a \in flat.anims, eased \in Eased : FlatFrame(a, eased)

\* ------------------------------------------------------------------ drawLedger
\* plot abscissae are in 1/PlotScale px
PlotScale == VScale \div 10
\* widths of the chart canvas (autosizeCanvas of the chart, same limits)
ChartWidths == {layoutWidth(hw) : hw \in HostWidths}
plotWidth(cw) == (cw - plotMarginL - plotMarginR) * PlotScale

\* tLeft = Math.max(0, tNow - f * Tw)
tLeft == Max(0, t - MulDiv(timeWindowMs, nowFracNum, nowFracDen))
\* xOf(t) = ((t - tLeft) / Tw) * iw
xOf(tt, iw) == MulDiv(tt - tLeft, iw, timeWindowMs)

\* mutant: the curves are drawn from the oldest sample held
firstVisible_All(data, i) == 1

\* i0: scanning back from sample i, the first one at or before tLeft (the
\* oldest sample when there is none); the scan goes ScanBlock samples at a time
RECURSIVE firstVisible(_, _)
firstVisible(data, i) ==
  LET lo == Max(1, i - ScanBlock + 1)
      hit == {j \in lo..i : data[j].t <= tLeft}
  IN IF hit # {} THEN CHOOSE j \in hit : \A k \in hit : k <= j
     ELSE IF lo = 1 THEN 1
     ELSE firstVisible(data, lo - 1)

\* what drawLedger puts on a plot of width iw: the abscissa of the now line
\* and the range first..last of the samples the curves run through (0, 0: none)
drawLedger(iw) ==
  IF E0 = 0 \/ Len(samples) = 0
  THEN [now |-> MulDiv(iw, nowFracNum, nowFracDen), first |-> 0, last |-> 0]
  ELSE [now |-> xOf(t, iw), first |-> firstVisible(samples, Len(samples)),
        last |-> Len(samples)]

\* ------------------------------------------------------------------ drawAll
\* what drawTable reads of the state: the canvas size, the ball, and the cue
\* (drawn in aim, hitting and idle along aimVec, retracted by the pull or by
\* the progress of the strike)
drawTable ==
  [w |-> width, h |-> height, ball |-> Pt(x, y),
   cue |-> IF mode \in {"aim", "hitting", "idle"}
           THEN [mode |-> mode, aim |-> aimVec,
                 hitFrame |-> IF mode = "hitting" THEN hitFrame ELSE 0]
           ELSE [mode |-> "none", aim |-> Pt(0, 0), hitFrame |-> 0]]

\* the picture of the current state
Frame == [table |-> drawTable, ledger |-> drawLedger(plotWidth(width))]

NoFrame ==
  [table |-> [w |-> 0, h |-> 0, ball |-> Pt(0, 0),
              cue |-> [mode |-> "none", aim |-> Pt(0, 0), hitFrame |-> 0]],
   ledger |-> [now |-> 0, first |-> 0, last |-> 0]]

\* the state the simulation works on
simVars == <<mode, x, y, vx, vy, aimVec, hitFrame, E0, Etrans, Wfric, Winel, t, samples>>

\* drawAll() at the end of a handler that has changed the state: both
\* canvases show the new state, in the palette held
paint == shown' = [scheme |-> shown.scheme, blank |-> FALSE, frame |-> Frame']

\* mutant: drawing the ledger drops the oldest sample
drawAll_DropsSample(scheme) ==
  /\ samples' = IF samples = <<>> THEN samples ELSE Tail(samples)
  /\ UNCHANGED <<mode, x, y, vx, vy, aimVec, hitFrame, E0, Etrans, Wfric, Winel, t>>
  /\ shown' = [scheme |-> scheme, blank |-> FALSE, frame |-> Frame']

\* drawAll() on its own, with the palette of `scheme`: drawTable and
\* drawLedger read the state and assign nothing to it
drawAll(scheme) ==
  /\ UNCHANGED simVars
  /\ shown' = [scheme |-> scheme, blank |-> FALSE, frame |-> Frame']

\* ------------------------------------------------------------------ initOne
placeCenterX(w) == (w * VScale) \div 2
placeCenterY(h) == (h * VScale) \div 2

initOne(O) ==
  \E hw \in HostWidths, opts \in O :
    /\ hostWidth = hw
    /\ samplesMax = opts.samplesMax
    /\ width = layoutWidth(hw)
    /\ height = layoutHeight(layoutWidth(hw))
    /\ x = placeCenterX(layoutWidth(hw))
    /\ y = placeCenterY(layoutHeight(layoutWidth(hw)))
    /\ vx = 0 /\ vy = 0
    /\ mode = "idle" /\ hitFrame = 0
    /\ aimVec = Pt(0, 0)
    /\ frictionFactor = opts.frictionFactor /\ restitution = opts.restitution
    /\ E0 = 0 /\ Etrans = 0 /\ Wfric = 0 /\ Winel = 0
    /\ t = 0 /\ samples = <<>>
    /\ held = {} /\ sessions = {}
    /\ used = [down |-> 0, move |-> 0, ctl |-> 0, reset |-> 0]
    /\ drag = DragInit
    /\ link = LinkInit
    /\ page = PageInit
    /\ sizer = SizerInit
    /\ theme = ThemeInit
    /\ coin = CoinInit
    /\ flat = FlatInit
    /\ shown = [scheme |-> "light", blank |-> FALSE, frame |-> Frame]

Init == initOne(Opts)

InitLong == initOne(LongOpts)

InitWide == initOne(WideOpts)

InitDraw == initOne(DrawOpts)

\* ------------------------------------------------------------------ pointer events
SetBall(b) ==
  /\ x' = b.x /\ y' = b.y /\ vx' = b.vx /\ vy' = b.vy
  /\ mode' = b.mode /\ hitFrame' = b.hitFrame /\ aimVec' = b.aimVec

\* pointerdown listener of onPointerDrag (hitTest: () => true)
PointerDown(id, p) ==
  /\ UNCHANGED <<drag, link, samplesMax, page, sizer, theme, coin, flat>>
  /\ Attending
  /\ id \notin held
  /\ used.down < MaxDowns
  /\ Spend("down")
  /\ held' = held \cup {id}
  /\ sessions' = sessions \cup {id}
  /\ SetBall(onStart(Ball, p))
  /\ UNCHANGED <<width, height, hostWidth, frictionFactor, restitution,
                 E0, Etrans, Wfric, Winel, t, samples, shown>>

\* pointermove on the canvas: the move listener of every session runs
PointerMove(id, p) ==
  /\ UNCHANGED <<drag, link, samplesMax, page, sizer, theme, coin, flat>>
  /\ Attending
  /\ sessions # {}
  /\ used.move < MaxMoves
  /\ Spend("move")
  /\ SetBall(onMoveEach(Ball, p, Cardinality(sessions)))
  /\ UNCHANGED <<width, height, hostWidth, frictionFactor, restitution,
                 E0, Etrans, Wfric, Winel, t, samples, held, sessions>>
  /\ IF mode \in {"dragBall", "aim"} THEN paint ELSE UNCHANGED shown

\* pointerup / pointercancel on the canvas: the up listener of every session
\* runs and removes that session's listeners
PointerUp(id) ==
  /\ UNCHANGED <<drag, link, samplesMax, page, sizer, theme, coin, flat>>
  /\ Attending
  /\ id \in held
  /\ held' = held \ {id}
  /\ sessions' = {}
  /\ SetBall(onEndEach(Ball, Cardinality(sessions)))
  /\ UNCHANGED <<width, height, hostWidth, frictionFactor, restitution,
                 E0, Etrans, Wfric, Winel, t, samples, used>>
  /\ IF mode = "dragBall" /\ sessions # {} THEN paint ELSE UNCHANGED shown

\* ------------------------------------------------------------------ controls
\* input on the friction controls: toModel, then onChange
SetFriction(ui) ==
  /\ UNCHANGED <<drag, link, samplesMax, page, sizer, theme, coin, flat>>
  /\ Attending
  /\ used.ctl < MaxCtl
  /\ Spend("ctl")
  /\ frictionFactor' = clamp(1000 - ui, 900, 1000)
  /\ UNCHANGED <<width, height, hostWidth, x, y, vx, vy, mode, hitFrame, aimVec,
                 restitution, E0, Etrans, Wfric, Winel, t, samples, held, sessions, shown>>

SetRestitution(ui) ==
  /\ UNCHANGED <<drag, link, samplesMax, page, sizer, theme, coin, flat>>
  /\ Attending
  /\ used.ctl < MaxCtl
  /\ Spend("ctl")
  /\ restitution' = clamp(ui, 600, 1000)
  /\ UNCHANGED <<width, height, hostWidth, x, y, vx, vy, mode, hitFrame, aimVec,
                 frictionFactor, E0, Etrans, Wfric, Winel, t, samples, held, sessions, shown>>

\* mutant: a reset leaves the ledger of the last shot standing
hardReset_KeepLedger ==
  /\ UNCHANGED <<drag, link, samplesMax, page, sizer, theme, coin, flat>>
  /\ Attending
  /\ used.ctl < MaxCtl
  /\ used' = [used EXCEPT !.ctl = @ + 1, !.reset = @ + 1]
  /\ vx' = 0 /\ vy' = 0
  /\ mode' = "idle" /\ hitFrame' = 0
  /\ aimVec' = Pt(0, 0)
  /\ x' = placeCenterX(width) /\ y' = placeCenterY(height)
  /\ UNCHANGED <<E0, Etrans, Wfric, Winel, t, samples>>
  /\ UNCHANGED <<width, height, hostWidth, frictionFactor, restitution, held, sessions>>
  /\ paint

hardReset ==
  /\ UNCHANGED <<drag, link, samplesMax, page, sizer, theme, coin, flat>>
  /\ Attending
  /\ used.ctl < MaxCtl
  /\ used' = [used EXCEPT !.ctl = @ + 1, !.reset = @ + 1]
  /\ vx' = 0 /\ vy' = 0
  /\ mode' = "idle" /\ hitFrame' = 0
  /\ aimVec' = Pt(0, 0)
  /\ E0' = 0 /\ Etrans' = 0 /\ Wfric' = 0 /\ Winel' = 0
  /\ t' = 0 /\ samples' = <<>>
  /\ x' = placeCenterX(width) /\ y' = placeCenterY(height)
  /\ UNCHANGED <<width, height, hostWidth, frictionFactor, restitution, held, sessions>>
  /\ paint

\* ResizeObserver callback of autosizeCanvas: layout() only; setting the
\* canvas size in setupHiDPI leaves the canvas blank until the next drawAll
Resize(hw) ==
  /\ UNCHANGED <<drag, link, samplesMax, page, sizer, theme, coin, flat>>
  /\ hw # hostWidth
  /\ Attending
  /\ used.ctl < MaxCtl
  /\ Spend("ctl")
  /\ hostWidth' = hw
  /\ width' = layoutWidth(hw)
  /\ height' = layoutHeight(layoutWidth(hw))
  /\ UNCHANGED <<x, y, vx, vy, mode, hitFrame, aimVec, frictionFactor, restitution,
                 E0, Etrans, Wfric, Winel, t, samples, held, sessions>>
  /\ shown' = [scheme |-> shown.scheme, blank |-> TRUE, frame |-> NoFrame]

\* ------------------------------------------------------------------ loop
\* mutant: a launch appends its first sample to the buffer of the last shot
beginMotionFromAim_KeepSamples ==
  LET L == hypot(aimVec.x, aimVec.y)
      v == launchVelocity(aimVec)
      e0 == v.vx * v.vx + v.vy * v.vy
  IN IF L <= 0
     THEN UNCHANGED <<vx, vy, aimVec, E0, Etrans, Wfric, Winel, t, samples>>
     ELSE /\ vx' = v.vx /\ vy' = v.vy
          /\ aimVec' = Pt(0, 0)
          /\ E0' = e0 /\ Etrans' = e0 /\ Wfric' = 0 /\ Winel' = 0
          /\ t' = 0
          /\ samples' = sampleEnergy(samples, [t |-> 0, Etrans |-> e0, Wfric |-> 0, Winel |-> 0])

beginMotionFromAim ==
  LET L == hypot(aimVec.x, aimVec.y)
      v == launchVelocity(aimVec)
      e0 == v.vx * v.vx + v.vy * v.vy
  IN IF L <= 0
     THEN UNCHANGED <<vx, vy, aimVec, E0, Etrans, Wfric, Winel, t, samples>>
     ELSE /\ vx' = v.vx /\ vy' = v.vy
          /\ aimVec' = Pt(0, 0)
          /\ E0' = e0 /\ Etrans' = e0 /\ Wfric' = 0 /\ Winel' = 0
          /\ t' = 0
          /\ samples' = sampleEnergy(<<>>, [t |-> 0, Etrans |-> e0, Wfric |-> 0, Winel |-> 0])

\* mutant: the rest check comes last, after the energy correction and the
\* sample of the frame
movingFrame_SampleFirst(dt) ==
  \E c \in {collideWallsAndTrackLoss(x + vx, y + vy, vx, vy, Winel)} :
  \E f \in {applyFrictionAndTrackLoss(c.vx, c.vy, Wfric)} :
  \E k \in {energyCorrection(f.vx, f.vy, f.Wfric, c.Winel)} :
  \E rest \in {atRest(f.vx, f.vy)} :
     /\ t' = t + dt
     /\ x' = c.x /\ y' = c.y
     /\ vx' = (IF rest THEN 0 ELSE f.vx)
     /\ vy' = (IF rest THEN 0 ELSE f.vy)
     /\ mode' = IF rest THEN "idle" ELSE "moving"
     /\ Winel' = c.Winel
     /\ Etrans' = k.Etrans
     /\ Wfric' = k.Wfric
     /\ samples' = sampleEnergy(samples, [t |-> t + dt, Etrans |-> k.Etrans,
                                           Wfric |-> k.Wfric, Winel |-> c.Winel])
     /\ UNCHANGED <<hitFrame, aimVec, E0>>

\* (each intermediate result is bound once, as a chosen element of a singleton)
movingFrame(dt) ==
  \E c \in {collideWallsAndTrackLoss(x + vx, y + vy, vx, vy, Winel)} :
  \E f \in {applyFrictionAndTrackLoss(c.vx, c.vy, Wfric)} :
  \E rest \in {atRest(f.vx, f.vy)} :
  \E k \in {energyCorrection(IF rest THEN 0 ELSE f.vx, IF rest THEN 0 ELSE f.vy,
                             f.Wfric, c.Winel)} :
     /\ t' = t + dt
     /\ x' = c.x /\ y' = c.y
     /\ vx' = (IF rest THEN 0 ELSE f.vx)
     /\ vy' = (IF rest THEN 0 ELSE f.vy)
     /\ mode' = IF rest THEN "idle" ELSE "moving"
     /\ Winel' = c.Winel
     /\ Etrans' = k.Etrans
     /\ Wfric' = k.Wfric
     /\ samples' = sampleEnergy(samples, [t |-> t + dt, Etrans |-> k.Etrans,
                                           Wfric |-> k.Wfric, Winel |-> c.Winel])
     /\ UNCHANGED <<hitFrame, aimVec, E0>>

\* one requestAnimationFrame callback; gap = now - lastT.  `go` says whether
\* the frames of a moving ball are still followed.
loopFrames(gap, go) ==
  /\ UNCHANGED <<drag, link, samplesMax, page, sizer, theme, coin, flat>>
  /\ IF mode = "hitting"
     THEN /\ hitFrame' = hitFrame + 1
          /\ IF hitFrame + 1 >= cueAnimFrames
             THEN mode' = "moving" /\ beginMotionFromAim
             ELSE UNCHANGED <<mode, vx, vy, aimVec, E0, Etrans, Wfric, Winel, t, samples>>
          /\ UNCHANGED <<x, y>>
     ELSE IF mode = "moving"
          THEN /\ go
               /\ movingFrame(frameDt(gap))
          ELSE UNCHANGED <<x, y, vx, vy, mode, hitFrame, aimVec, E0, Etrans, Wfric,
                           Winel, t, samples>>
  /\ UNCHANGED <<width, height, hostWidth, frictionFactor, restitution, held,
                 sessions, used>>
  /\ paint

\* the callback given to onColorSchemeChange: the palette is read again and
\* drawAll() is called
SchemeRedraw(scheme) ==
  /\ scheme # shown.scheme
  /\ UNCHANGED <<width, height, hostWidth, frictionFactor, restitution, held,
                 sessions, used, samplesMax, drag, link, page, sizer, theme, coin, flat>>
  /\ drawAll(scheme)

\* a shot under friction is followed to rest, a frictionless one for MaxFrames
loop(gap) == loopFrames(gap, frictionFactor < 1000 \/ Len(samples) <= MaxFrames)

\* ------------------------------------------------------------------ spec
Next ==
  \/ \E id \in Pointers, p \in DownPts : PointerDown(id, p)
  \/ \E id \in Pointers, p \in MovePts : PointerMove(id, p)
  \/ \E id \in Pointers : PointerUp(id)
  \/ \E ui \in FricInputs : SetFriction(ui)
  \/ \E ui \in RestInputs : SetRestitution(ui)
  \/ hardReset
  \/ \E hw \in HostWidths : Resize(hw)
  \/ \E gap \in Gaps : loop(gap)

Spec == Init /\ [][Next]_vars

\* The widget on a page whose colour scheme changes.
NextDraw ==
  \/ Next
  \/ \E scheme \in Schemes : SchemeRedraw(scheme)

\* The coin-flip widget of widgets-core.js.
SpecCoin == Init /\ [][NextCoin]_vars

\* The flat-rotate guessing game.
SpecFlat == Init /\ [][NextFlat]_vars

SpecDraw == InitDraw /\ [][NextDraw]_vars

\* A shot left alone: once the ball moves, no pointer or reset event arrives
\* and the friction control is not touched.  requestAnimationFrame(loop) is
\* re-armed by every frame, so frames keep coming.
NextCoast ==
  \/ /\ mode # "moving"
     /\ \/ \E id \in Pointers, p \in DownPts : PointerDown(id, p)
        \/ \E id \in Pointers, p \in MovePts : PointerMove(id, p)
        \/ \E id \in Pointers : PointerUp(id)
        \/ \E ui \in FricInputs : SetFriction(ui)
        \/ hardReset
  \/ \E ui \in RestInputs : SetRestitution(ui)
  \/ \E hw \in HostWidths : Resize(hw)
  \/ \E gap \in Gaps : loop(gap)

\* requestAnimationFrame keeps the frames of a moving ball coming
movingLoop == mode = "moving" /\ \E gap \in Gaps : loop(gap)

SpecCoast == Init /\ [][NextCoast]_vars /\ WF_vars(movingLoop)

\* One gesture and then a long shot: a frictionless ball is followed for
\* LongFrames frames, beyond the capacity of the sample buffer and the width
\* of the ledger's time window.
loopLong(gap) == loopFrames(gap, t < LongFrames * gap)

NextLong ==
  \/ /\ mode # "moving" /\ used.down < 1
     /\ \E id \in Pointers, p \in DownPts : PointerDown(id, p)
  \/ /\ mode # "moving"
     /\ \E id \in Pointers : PointerUp(id)
  \/ \E gap \in Gaps : loopLong(gap)

SpecLong == InitLong /\ [][NextLong]_vars

\* A few frames with every kind of wall-clock gap between them: negative,
\* zero, a display frame, a tab that was in the background.
loopJitter(gap) == loopFrames(gap, Len(samples) <= JitterFrames)

NextJitter ==
  \/ /\ mode # "moving" /\ used.down < 1
     /\ \E id \in Pointers, p \in DownPts : PointerDown(id, p)
  \/ /\ mode # "moving"
     /\ \E id \in Pointers : PointerUp(id)
  \/ \E gap \in JitterGaps : loopJitter(gap)

SpecJitter == Init /\ [][NextJitter]_vars

\* The widget started by PoolInvarianceInit with any of WideOpts.
SpecOpts == InitWide /\ [][Next]_vars

\* The theme resolver alone.
SpecTheme == Init /\ [][NextTheme]_vars

\* An autosized canvas alone.
SpecSizer == Init /\ [][NextSizer]_vars

\* A page with several widgets.
SpecPage == Init /\ [][NextPage]_vars

\* The drag helper alone, driven by every order of pointer events.
SpecDrag == Init /\ [][NextDrag]_vars

\* The control link alone.
SpecLink == Init /\ [][NextLink]_vars

\* ------------------------------------------------------------------ steps
\* a frame of the loop taken in mode moving (only such a step advances t)
MovingFrameStep == mode = "moving" /\ t' > t
\* a frame of the loop taken in mode hitting
HittingFrameStep == mode = "hitting" /\ hitFrame' = hitFrame + 1
PointerDownStep == held' # held /\ held \subseteq held'
PointerUpStep == held' # held /\ held' \subseteq held
\* a frame of the loop taken in mode moving, told by the sample it appends
MovingFrame == mode = "moving" /\ samples' # samples /\ samples' # <<>>
PointerMoveStep == used'.move # used.move
\* a click on the reset button
ResetStep == used'.reset # used.reset
\* the strikeAnimating -> moving transition
LaunchStep == mode = "hitting" /\ mode' = "moving"

InTable == r <= x /\ x <= W - r /\ r <= y /\ y <= H - r
Speed2 == vx * vx + vy * vy
\* the integrated position of a moving frame leaves the table
CrossX == x + vx - r < 0 \/ x + vx + r > W
CrossY == y + vy - r < 0 \/ y + vy + r > H

Last(q) == q[Len(q)]

\* ------------------------------------------------------------------ claims

\* C1: every sample held in the ledger satisfies Etrans + Wfric + Winel = E0
\* within 1e-6, E0 being the value fixed at launch; for every launch vector,
\* friction and restitution, also when the controls change between frames.
C1_Conservation ==
  \A i \in 1..Len(samples) :
    Abs(samples[i].Etrans + samples[i].Wfric + samples[i].Winel - E0) <= corrEps

\* a shot that lost energy to friction and to a cushion and was brought to rest:
\* the last sample is the one of the frame that zeroed the velocity
C1_Witness ==
  /\ mode = "idle" /\ Len(samples) > 2
  /\ Last(samples).Etrans = 0 /\ Last(samples).Wfric > 0 /\ Last(samples).Winel > 0
  /\ Last(samples).Wfric + Last(samples).Winel = E0

\* C2: after every moving frame (position += velocity, then the wall
\* collisions) the ball lies within [r, width - r] x [r, height - r].
C2_StepContained == [][MovingFrameStep => InTable']_vars

\* a moving frame found the ball beyond the right and the bottom cushion (the
\* table had shrunk under it by hundreds of px) and put it back on both
C2_Witness ==
  /\ mode = "moving" /\ Len(samples) >= 2
  /\ width = minWidth /\ x = W - r /\ y = H - r /\ vx < 0 /\ vy < 0

\* C3 (as claimed): in every mode, and after a resize of the container, the
\* ball lies within [r, width - r] x [r, height - r] of the current table.
C3_Containment == InTable

\* frames of friction ff after which a speed v is below the rest threshold
RECURSIVE FramesToRest(_, _)
FramesToRest(v, ff) ==
  IF v * v < (VScale * VScale) \div 10000 THEN 0
  ELSE 1 + FramesToRest(MulDiv(v, ff, 1000), ff)

\* C4: with frictionFactor < 1 and no pointer or reset event after launch, a
\* moving ball reaches idle with velocity (0,0), within the number of frames
\* friction needs to bring the top speed below 0.01, and then stays idle; the
\* ball is never left moving at a speed below 0.01; every frame under
\* friction lowers the speed or ends the motion.
C4_Termination ==
  /\ (mode = "moving" /\ frictionFactor < 1000) ~> (mode = "idle" /\ vx = 0 /\ vy = 0)
  /\ [](mode = "moving" /\ frictionFactor < 1000 =>
          Len(samples) <= FramesToRest(maxSpeedPxPerFrame * VScale, frictionFactor) + 2)
  /\ [][MovingFrameStep /\ frictionFactor < 1000 =>
          \/ mode' = "idle" /\ vx' = 0 /\ vy' = 0
          \/ mode' = "moving" /\ Speed2' < Speed2]_vars
  /\ [][mode = "idle" /\ UNCHANGED <<held, used>> => mode' = "idle"]_vars
  /\ [](mode = "moving" => ~(Speed2 < (VScale * VScale) \div 10000))

\* friction alone has brought a shot to rest, no cushion was touched
C4_Witness ==
  /\ mode = "idle" /\ vx = 0 /\ vy = 0 /\ frictionFactor < 1000
  /\ Len(samples) > 2 /\ Wfric = E0 /\ Winel = 0 /\ E0 > 0

\* C5: over the samples of a shot Wfric and Winel never decrease; a frame
\* with frictionFactor = 1 and restitution = 1 changes none of Wfric, Winel,
\* Etrans and leaves the ball moving, so that from the launch (Wfric = Winel
\* = 0, Etrans = E0) on both stay 0 and Etrans stays E0.
C5_Dissipation ==
  /\ [](\A i \in 1..(Len(samples) - 1) :
          /\ samples[i + 1].Wfric >= samples[i].Wfric
          /\ samples[i + 1].Winel >= samples[i].Winel)
  /\ [][LaunchStep => Wfric' = 0 /\ Winel' = 0 /\ Etrans' = E0'
                      /\ Last(samples') = [t |-> 0, Etrans |-> E0', Wfric |-> 0, Winel |-> 0]]_vars
  /\ [][MovingFrameStep /\ frictionFactor = 1000 /\ restitution = 1000
        => /\ Wfric' = Wfric /\ Winel' = Winel /\ Etrans' = Etrans
           /\ mode' = "moving"
           /\ Last(samples').Etrans = Etrans
           /\ Last(samples').Wfric = Wfric /\ Last(samples').Winel = Winel]_vars

\* a full-speed shot straight up on the default table has come back off the
\* top cushion with all of its energy
C5_Witness ==
  /\ mode = "moving" /\ frictionFactor = 1000 /\ restitution = 1000
  /\ vx = 0 /\ vy = maxSpeedPxPerFrame * VScale
  /\ Len(samples) > 2 /\ Etrans = E0 /\ Wfric = 0 /\ Winel = 0

\* C6: the launch velocity is a function of the aim vector alone: the speed
\* maxSpeedPxPerFrame * sqrt(clamp(pull / maxPull, 0, 1)) along the unit aim
\* direction; a pull >= maxPull gives exactly maxSpeedPxPerFrame, a pull of 0
\* gives 0, and the speed never exceeds maxSpeedPxPerFrame.
C6_LaunchMapping ==
  [][LaunchStep =>
      LET L == hypot(aimVec.x, aimVec.y)
          s == pullToSpeed(L)
          maxS == maxSpeedPxPerFrame * VScale
      IN /\ vx' = MulDiv(s, unit(aimVec.x, L), FOne)
         /\ vy' = MulDiv(s, unit(aimVec.y, L), FOne)
         /\ s <= maxS
         /\ L >= maxPull * VScale => s = maxS
         /\ pullToSpeed(0) = 0
         \* the square-root curve: s^2 / maxS^2 = L / maxPull, to 1 %
         /\ L <= maxPull * VScale =>
              Abs(((s * s) \div VScale) * maxPull - maxSpeedPxPerFrame * maxSpeedPxPerFrame * L)
                <= (maxSpeedPxPerFrame * maxSpeedPxPerFrame * L) \div 100 + maxPull
         \* |v| = s, to the rounding of the two components
         /\ Abs(vx' * vx' + vy' * vy' - s * s) <= 4 * s + 4
         /\ (aimVec.x > 0 => vx' >= 0) /\ (aimVec.x < 0 => vx' <= 0) /\ (aimVec.x = 0 => vx' = 0)
         /\ (aimVec.y > 0 => vy' >= 0) /\ (aimVec.y < 0 => vy' <= 0) /\ (aimVec.y = 0 => vy' = 0)
  ]_vars

\* a pull of more than maxPull straight down has just launched the ball
\* straight up at exactly maxSpeedPxPerFrame
C6_Witness ==
  /\ mode = "moving" /\ Len(samples) = 1 /\ t = 0
  /\ vx = 0 /\ vy = -(maxSpeedPxPerFrame * VScale)
  /\ E0 = (maxSpeedPxPerFrame * VScale) * (maxSpeedPxPerFrame * VScale)

RECURSIVE GCD(_, _)
GCD(a, b) == IF b = 0 THEN a ELSE GCD(b, a % b)

\* the change of Winel in a step is 1/2 v^2 (1 - e^2) for e = restitution:
\* exactly when the product e * v is exact, and else to its rounding
LossIs(v) ==
  LET g == GCD(restitution, 1000)
      k == restitution \div g
      d == 1000 \div g
      dW == Winel' - Winel
  IN /\ Abs(d * d * dW - v * v * (d * d - k * k)) <= d * k * v + d * d
     /\ (v * restitution) % 1000 = 0 => d * d * dW = v * v * (d * d - k * k)
     /\ dW = v * v - MulDiv(v, restitution, 1000) * MulDiv(v, restitution, 1000)

\* C7: with frictionFactor = 1 and restitution e < 1, a head-on wall hit at
\* speed v raises Winel by 1/2 v^2 (1 - e^2) in that frame, and a moving frame
\* in which no wall is touched leaves Winel unchanged.
C7_CushionLoss ==
  [][MovingFrameStep /\ frictionFactor = 1000 /\ restitution < 1000 =>
       /\ (~CrossX /\ ~CrossY) => Winel' = Winel
       /\ (vx = 0 /\ CrossY /\ ~CrossX) => LossIs(Abs(vy))
       /\ (vy = 0 /\ CrossX /\ ~CrossY) => LossIs(Abs(vx))
  ]_vars

\* a full-speed shot has hit the top cushion head-on with restitution 0.6:
\* 64 % of its energy is booked to Winel
C7_Witness ==
  /\ mode = "moving" /\ frictionFactor = 1000 /\ restitution = 600
  /\ vx = 0 /\ vy = MulDiv(maxSpeedPxPerFrame * VScale, 600, 1000)
  /\ E0 = (maxSpeedPxPerFrame * VScale) * (maxSpeedPxPerFrame * VScale)
  /\ 25 * Winel = 16 * E0 /\ Wfric = 0

Damped(v) == IF frictionFactor >= 1000 THEN v ELSE MulDiv(v, frictionFactor, 1000)

C9_Release ==
  /\ [][PointerUpStep /\ mode = "aim" =>
          IF hypot(aimVec.x, aimVec.y) > 5 * VScale
          THEN mode' = "hitting" /\ hitFrame' = 0
          ELSE /\ mode' = "idle" /\ aimVec' = Pt(0, 0)
               /\ UNCHANGED <<x, y, vx, vy, E0, Etrans, Wfric, Winel, t, samples>>]_vars
  /\ [][mode' = "moving" /\ mode # "moving" => mode = "hitting"]_vars
  /\ [][mode' = "hitting" /\ mode # "hitting" =>
          PointerUpStep /\ mode = "aim" /\ hypot(aimVec.x, aimVec.y) > 5 * VScale]_vars
  /\ [][mode' = "aim" /\ mode # "aim" => PointerDownStep]_vars

\* one gesture, begun off the ball and released with a pull of 5 px: the ball
\* rests where it was and no shot was taken
C9_Witness ==
  /\ mode = "idle" /\ aimVec = Pt(0, 0) /\ held = {}
  /\ used = [down |-> 1, move |-> 1, ctl |-> 0, reset |-> 0]
  /\ x = placeCenterX(width) /\ y = placeCenterY(height)
  /\ vx = 0 /\ vy = 0 /\ E0 = 0 /\ samples = <<>>

\* C10: an armed shot stays in strikeAnimating for cueAnimFrames frames,
\* counted from 0 by hitFrame, and the frame that counts cueAnimFrames makes
\* it moving; the frames before leave position, velocity and ledger alone;
\* only a pointer-down or a reset ends the animation early.
C10_StrikeAnimation ==
  /\ [](mode = "hitting" => hitFrame >= 0 /\ hitFrame < cueAnimFrames)
  /\ [][mode' = "hitting" /\ mode # "hitting" => hitFrame' = 0]_vars
  /\ [][HittingFrameStep =>
          IF hitFrame' < cueAnimFrames
          THEN /\ mode' = "hitting"
               /\ UNCHANGED <<x, y, vx, vy, aimVec, E0, Etrans, Wfric, Winel, t, samples>>
          ELSE mode' = "moving" /\ x' = x /\ y' = y]_vars
  /\ [][mode = "hitting" /\ mode' # "hitting" =>
          \/ HittingFrameStep /\ hitFrame' = cueAnimFrames
          \/ PointerDownStep
          \/ ResetStep]_vars
  /\ [][mode = "hitting" /\ mode' = "hitting" => hitFrame' \in {hitFrame, hitFrame + 1}]_vars

\* the last frame of the cue animation is still to come
C10_Witness ==
  mode = "hitting" /\ hitFrame = cueAnimFrames - 1 /\ samples = <<>> /\ E0 = 0

\* C11 (as claimed): whenever the mode is idle or draggingBody the aim vector
\* is (0,0).
C11_AimZeroOutsideAim == mode \in {"idle", "dragBall"} => aimVec = Pt(0, 0)

\* C12: while the mode is draggingBody the velocity is (0,0); a pointer-move
\* puts the ball at the pointer position clamped into [r, W - r] x [r, H - r];
\* no step but a reset touches E0, Etrans, Wfric, Winel, t or the samples; a
\* pointer-up leads to idle.
C12_Dragging ==
  /\ [](mode = "dragBall" => vx = 0 /\ vy = 0)
  /\ [][PointerMoveStep /\ mode = "dragBall" =>
          /\ \E p \in MovePts : x' = clamp(p.x, r, W - r) /\ y' = clamp(p.y, r, H - r)
          /\ InTable' /\ mode' = "dragBall" /\ vx' = 0 /\ vy' = 0]_vars
  /\ [][mode = "dragBall" /\ ~ResetStep =>
          UNCHANGED <<E0, Etrans, Wfric, Winel, t, samples>>]_vars
  /\ [][PointerUpStep /\ mode = "dragBall" => mode' = "idle" /\ x' = x /\ y' = y]_vars

\* a ball grabbed in flight and dragged against the bottom cushion: it stands
\* still there and the ledger of the shot is as the grab found it
C12_Witness ==
  /\ mode = "dragBall" /\ used.move = 1 /\ used.reset = 0
  /\ y = H - r /\ vx = 0 /\ vy = 0
  /\ E0 > 0 /\ Len(samples) >= 1 /\ Last(samples).t = t

\* C13: a reset, from any state, leaves mode idle, velocity and aim vector
\* (0,0), E0 = Etrans = Wfric = Winel = 0, t = 0, no samples, and the ball at
\* the centre of the table.
C13_Reset ==
  [][ResetStep =>
       /\ mode' = "idle" /\ vx' = 0 /\ vy' = 0 /\ aimVec' = Pt(0, 0)
       /\ E0' = 0 /\ Etrans' = 0 /\ Wfric' = 0 /\ Winel' = 0
       /\ t' = 0 /\ samples' = <<>>
       /\ 2 * x' = W' /\ 2 * y' \in {H', H' - 1}
  ]_vars

\* a reset has come in the middle of a gesture (the pointer is still down,
\* and has moved): the widget is as constructed
C13_Witness ==
  /\ used.reset = 1 /\ used.move = 1 /\ held # {}
  /\ mode = "idle" /\ vx = 0 /\ vy = 0 /\ aimVec = Pt(0, 0)
  /\ E0 = 0 /\ t = 0 /\ samples = <<>>
  /\ x = placeCenterX(width) /\ y = placeCenterY(height)

\* C14: the strikeAnimating -> moving transition re-initialises the ledger:
\* E0 = 1/2 |v|^2 of the launch velocity, Etrans = E0, Wfric = Winel = 0,
\* t = 0, and the buffer holds the one sample (0, E0, 0, 0); E0 is then
\* changed by no step but the next launch or a reset.
C14_LedgerInit ==
  /\ [][LaunchStep =>
          /\ E0' = vx' * vx' + vy' * vy' /\ E0' > 0
          /\ Etrans' = E0' /\ Wfric' = 0 /\ Winel' = 0 /\ t' = 0
          /\ samples' = <<[t |-> 0, Etrans |-> E0', Wfric |-> 0, Winel |-> 0]>>]_vars
  /\ [][E0' # E0 => LaunchStep \/ ResetStep]_vars

\* a second gesture has just launched an oblique shot: the ledger holds the
\* first sample of this shot only
C14_Witness ==
  /\ mode = "moving" /\ used.down = 2 /\ used.reset = 0
  /\ vx # 0 /\ vy # 0 /\ E0 = Speed2 /\ Etrans = E0 /\ Wfric = 0 /\ Winel = 0
  /\ t = 0 /\ samples = <<[t |-> 0, Etrans |-> E0, Wfric |-> 0, Winel |-> 0]>>

\* C15: the buffer never holds more than samplesMax samples; a moving frame
\* appends exactly one sample, dropping the oldest when the buffer is full;
\* no other step changes the buffer but a launch (which restarts it) and a
\* reset; the samples held are in time order.
C15_BufferBound ==
  /\ [](Len(samples) <= samplesMax)
  /\ [](\A i \in 1..(Len(samples) - 1) : samples[i].t < samples[i + 1].t)
  /\ [][MovingFrameStep =>
          LET s == [t |-> t', Etrans |-> Etrans', Wfric |-> Wfric', Winel |-> Winel']
          IN samples' = IF Len(samples) < samplesMax THEN Append(samples, s)
                        ELSE Append(Tail(samples), s)]_vars
  /\ [][samples' # samples => MovingFrameStep \/ LaunchStep \/ ResetStep]_vars

\* the buffer is full (samplesMax samples, be it 2400 or the short buffer
\* given by opts) and the first samples of the shot have been dropped
C15_Witness ==
  /\ mode = "moving" /\ Len(samples) = samplesMax
  /\ samples[1].t > 0 /\ Last(samples).t = t

\* C16: whatever the wall-clock gap between two frames, a moving frame
\* advances t by between 1 ms and 50 ms, the sample it appends carries the new
\* t, and the time stamps in the buffer increase strictly; t is not advanced
\* by a step taken in another mode.
C16_FrameTime ==
  /\ [][MovingFrame => t' - t >= 1 /\ t' - t <= 50 /\ Last(samples').t = t']_vars
  /\ [][mode # "moving" /\ t' # t => t' = 0 /\ (LaunchStep \/ ResetStep)]_vars
  /\ [](\A i \in 1..(Len(samples) - 1) : samples[i + 1].t - samples[i].t \in 1..50)

\* a frame after a gap of zero or less (1 ms) and one after a long pause (50 ms)
C16_Witness ==
  /\ Len(samples) >= 3
  /\ samples[2].t - samples[1].t = 1
  /\ samples[3].t - samples[2].t = 50

\* C17: in the ledger chart, once the shot time is at least nowFrac *
\* timeWindowSec the now line is at nowFrac * plotWidth; the first sample
\* drawn is the latest one at or before the left edge of the window, so that
\* no sample older than now - timeWindowSec is drawn; with no shot (E0 = 0 or
\* no samples) only the now line is drawn, at nowFrac * plotWidth.
C17_ChartWindow ==
  \A cw \in ChartWidths :
    LET iw == plotWidth(cw)
        d == drawLedger(iw)
        nowAt == MulDiv(iw, nowFracNum, nowFracDen)
    IN IF E0 = 0 \/ samples = <<>>
       THEN d.now = nowAt /\ d.first = 0 /\ d.last = 0
       ELSE /\ t * nowFracDen >= timeWindowMs * nowFracNum => d.now = nowAt
            /\ d.now >= 0 /\ d.now <= nowAt
            /\ d.first \in 1..Len(samples) /\ d.last = Len(samples)
            /\ samples[d.first].t <= tLeft \/ d.first = 1
            /\ \A j \in (d.first + 1)..d.last : samples[j].t > tLeft
            /\ \A j \in d.first..d.last : samples[j].t >= t - timeWindowMs

\* the shot has lasted longer than the time window: the buffer holds samples
\* older than the window, and the curves start after them
C17_Witness ==
  /\ mode = "moving" /\ E0 > 0 /\ t > timeWindowMs
  /\ samples[1].t < t - timeWindowMs
  /\ firstVisible(samples, Len(samples)) > 1
  /\ samples[firstVisible(samples, Len(samples))].t = tLeft

\* sessions of the drag target whose listeners are registered
LiveSessions == {i \in 1..Len(drag.log) : drag.log[i].live}

\* C18 (as claimed): once the pointer-up or pointer-cancel that ends a drag
\* session has been handled, its listeners are removed, its pointer is no
\* longer captured and the cursor is the default one, also when the release
\* of the capture fails or the end callback raises; no session stays stuck.
C18_SessionCleanedUp ==
  /\ \A i \in 1..Len(drag.log) : drag.log[i].ends >= 1 => ~drag.log[i].live
  /\ \A id \in drag.capture : \E i \in LiveSessions : drag.log[i].ptr = id
  /\ LiveSessions = {} => drag.cursor = ""

C20_ControlsInSync ==
  /\ [][link' # link /\ link.kind \in LinkKinds =>
          LET m == IF link'.last.op = "set" THEN link'.last.arg
                   ELSE toModel(link.kind, link'.last.arg)
          IN /\ link'.changes = Append(link.changes, m)
             /\ link'.hasRange => link'.range = fromModel(link.kind, m)
             /\ link'.hasNumber => link'.number = fromModel(link.kind, m)
             /\ ~link'.hasRange => link'.range = Blank
             /\ ~link'.hasNumber => link'.number = Blank]_vars
  /\ [](link.hasRange /\ link.hasNumber /\ link.changes # <<>> => link.range = link.number)
  /\ [](link.kind \notin LinkKinds => link.changes = <<>>)

\* 0.0123 typed into the number field of the friction pair: the multiplier is
\* 0.9877 and both controls show 0.012
C20_Witness ==
  /\ link.kind = "fric" /\ link.hasRange /\ link.hasNumber
  /\ link.last = [op |-> "number", arg |-> 123]
  /\ link.changes = <<9877>>
  /\ link.range = 120 /\ link.number = 120

\* C21 (as claimed): in every reachable state the stored frictionFactor is
\* within [0.90, 1.00] and the stored restitution within [0.60, 1.00],
\* whatever is entered in the controls or given at initialisation.
C21_ParamsInRange ==
  /\ frictionFactor >= 900 /\ frictionFactor <= 1000
  /\ restitution >= 600 /\ restitution <= 1000

\* C22 (as claimed): once the page has loaded, no error is left uncaught, the
\* widget that lacks its table canvas is abandoned, and every widget that has
\* its canvas is initialised and runs its frame loop.
C22_MissingCanvasIsolated ==
  page.loaded =>
    /\ ~page.uncaught
    /\ \A i \in 1..PageWidgets :
         IF page.canvas[i] THEN page.status[i] \in {"running", "aborted"}
         ELSE page.status[i] = "aborted"
    /\ (\E i \in 1..PageWidgets : page.status[i] = "running") =>
         \A i \in 1..PageWidgets : page.canvas[i] => page.status[i] = "running"

\* C23 (as claimed): autosizeCanvas never ends in an error, and after the
\* call, a resize of the container or relayout() the width is the container
\* width clamped to [min, max] (max when there is no container) and the
\* height is round(width / aspect).
C23_LayoutTotal ==
  sizer.made =>
    /\ ~sizer.error
    /\ sizer.seen =>
         sizer.width = IF sizer.host = Absent THEN sizer.opt.max
                       ELSE clamp(sizer.host, sizer.opt.min, sizer.opt.max)
    /\ sizer.height = (2 * sizer.width * sizer.opt.den + sizer.opt.num) \div (2 * sizer.opt.num)

\* C24: a callback is called once at its subscription, with the scheme the
\* page has then; at every change of the scheme held by the resolver each
\* callback that is subscribed is called once with the new scheme, whether or
\* not other callbacks raise; a detection of the same scheme calls nobody; a
\* callback whose unsubscribe function has been called gets no call until it
\* is subscribed again.
C24_Subscription ==
  /\ [][\A cb \in Cbs :
          LET changed == theme'.mode # theme.mode
              byChange == IF changed /\ cb \in theme.live THEN <<theme'.mode>> ELSE <<>>
              bySub == IF theme'.last = [op |-> "subscribe", cb |-> cb] /\ theme'.subs # theme.subs
                       THEN <<theme'.mode>> ELSE <<>>
          IN theme'.calls[cb] = theme.calls[cb] \o byChange \o bySub]_vars
  /\ [][theme'.subs # theme.subs => theme'.mode = theme.actual /\ theme'.ready]_vars
  /\ [][theme'.mode # theme.mode => theme'.mode = theme.actual]_vars
  /\ [](\A cb \in Cbs : cb \notin theme.live => cb \notin SeqRange(theme.listeners))

\* two subscribers; the scheme turns dark and the first one raises while it is
\* told; it unsubscribes; the scheme turns light again
C24_Witness ==
  /\ theme.calls[1] = <<"light", "dark">>
  /\ theme.calls[2] = <<"light", "dark", "light">>
  /\ theme.errors = 1 /\ theme.live = {2} /\ theme.mode = "light"

\* C25: a redraw on its own (the scheme-change callback) leaves mode,
\* position, velocity, aim vector, hitFrame, the energies, t and the sample
\* buffer as they are; whatever a step paints is the picture of the state at
\* the end of that step; and a step that changes nothing but the picture
\* leaves every other variable alone.
C25_RedrawHasNoEffect ==
  /\ [][shown'.scheme # shown.scheme => UNCHANGED simVars]_vars
  /\ [][shown' # shown /\ ~shown'.blank => shown'.frame = Frame']_vars
  /\ [][UNCHANGED simVars =>
          \/ shown' = shown
          \/ shown'.blank
          \/ shown'.frame = Frame /\ UNCHANGED <<width, height>>]_vars

\* the palette changed while the ball was rolling: the picture was redrawn
\* in the dark scheme and the shot went on
C25_Witness ==
  /\ mode = "moving" /\ Len(samples) >= 3
  /\ shown.scheme = "dark" /\ ~shown.blank /\ shown.frame = Frame
  /\ shown.frame.ledger.last = Len(samples)

\* the frame of a moving ball: the only step that advances t
IsMovingFrame == mode = "moving" /\ t' > t

\* the velocity after the wall and friction steps of the frame about to run,
\* before the rest check
dampedVelocity ==
  LET c == collideWallsAndTrackLoss(x + vx, y + vy, vx, vy, Winel)
  IN applyFrictionAndTrackLoss(c.vx, c.vy, Wfric)

\* C26 as stated: the rest check comes after the sample, so the sample of the
\* frame in which the ball comes to rest still carries the kinetic energy of
\* the velocity the friction step left.
C26_SampleBeforeRestCheck ==
  [][IsMovingFrame /\ mode' = "idle"
       => samples'[Len(samples')].Etrans
            = dampedVelocity.vx * dampedVelocity.vx + dampedVelocity.vy * dampedVelocity.vy]_vars

\* C26, amended: the rest check comes before the energy correction and the
\* sample.  The sample of every moving frame carries the time of the frame
\* and the kinetic energy of the velocity the frame ends with; in the frame in
\* which the ball comes to rest that is zero, and the velocity the friction
\* step left is below the threshold.
C26_RestCheckBeforeSample ==
  [][IsMovingFrame
       => /\ samples' # <<>>
          /\ samples'[Len(samples')]
               = [t |-> t', Etrans |-> vx' * vx' + vy' * vy', Wfric |-> Wfric', Winel |-> Winel']
          /\ Etrans' = vx' * vx' + vy' * vy'
          /\ mode' = "idle" <=> atRest(dampedVelocity.vx, dampedVelocity.vy)
          /\ mode' = "idle" => vx' = 0 /\ vy' = 0 /\ samples'[Len(samples')].Etrans = 0
          /\ mode' # "idle" => mode' = "moving" /\ vx' = dampedVelocity.vx /\ vy' = dampedVelocity.vy]_vars

\* a shot has come to rest: its last sample shows no kinetic energy, the one
\* before it some, and the remainder went to the friction account
C26_Witness ==
  /\ mode = "idle" /\ t > 0 /\ vx = 0 /\ vy = 0
  /\ Len(samples) >= 2
  /\ samples[Len(samples)].t = t
  /\ samples[Len(samples)].Etrans = 0
  /\ samples[Len(samples) - 1].Etrans > 0
  /\ samples[Len(samples)].Wfric > samples[Len(samples) - 1].Wfric

\* C27: whenever the mode is idle the ball has velocity (0, 0).
C27_IdleIsAtRest == mode = "idle" => vx = 0 /\ vy = 0

\* C28: with two pointers down on the same target, each session receives
\* onMove and onEnd only for events of the pointer that started it: a move,
\* an up or a cancel of one pointer leaves the sessions of the other pointers
\* as they are.
C28_SessionsPerPointer ==
  [][(/\ \E i, j \in LiveSessions :
           /\ drag.log[i].ptr # drag.log[j].ptr
           /\ {drag.log[i].ptr, drag.log[j].ptr} \subseteq drag.down
      /\ drag' # drag
      /\ drag'.last \in {"move", "pointerup", "pointercancel"})
     => \A i \in 1..Len(drag.log) :
          drag.log[i].ptr # drag'.who => drag'.log[i] = drag.log[i]]_vars

\* C29: whenever the heads probability is changed after initialisation the
\* tallies n, h, t and the series of estimates are cleared, so that every
\* flip counted was drawn with the current probability and n = h + t counts
\* only such flips, also when the change arrives during a flip animation.
C29_ChangeOfOddsResets ==
  /\ [](coin.odds \subseteq {coin.pHeads} /\ coin.n = coin.h + coin.t)
  /\ [][coin' # coin /\ coin'.last = "odds"
          => coin'.n = 0 /\ coin'.h = 0 /\ coin'.t = 0 /\ coin'.seriesPHat = <<>>]_vars

\* C30: in every round, while the player has neither guessed nor revealed,
\* the rotation angle is 0, whatever the order of guess, reveal, reset,
\* slider, drag and animation-frame events.
C30_EdgeOnUntilGuess == ~flat.guessed /\ ~flat.revealed => flat.angleDeg = 0

====
